---- MODULE Spec2Model ----
(***************************************************************************)
(* Identity-vigilance service of snpxcheck (src/src/services,              *)
(* src/src/data, src/src/utils).                                           *)
(*                                                                         *)
(* Python strings are modelled as sequences of one-character strings, so   *)
(* that strip(), lower(), startswith(), substring tests and the            *)
(* "bis"/"ter" suffix pattern are computed character by character.         *)
(* A DataFrame is a record [columns, index, rows]: the column names in     *)
(* order, the row labels in order, and for each row the function from      *)
(* column name to cell.                                                    *)
(***************************************************************************)
EXTENDS Integers, Sequences, FiniteSets, TLC

(***************************************************************************)
(* Python and pandas primitives                                            *)
(***************************************************************************)

\* float("nan"): the cell pandas stores for a missing value.  It is a
\* one-element sequence whose element is no character, so that it differs
\* from every string, the three-letter string "nan" included.
NaN == <<"NaN">>

\* Python None, as returned by Series.get for an absent label.
NoneCell == <<"None">>

\* pd.isna on a scalar
IsNa(v) == v = NaN \/ v = NoneCell

UpperCase ==
  <<"A","B","C","D","E","F","G","H","I","J","K","L","M",
    "N","O","P","Q","R","S","T","U","V","W","X","Y","Z">>

LowerCase ==
  <<"a","b","c","d","e","f","g","h","i","j","k","l","m",
    "n","o","p","q","r","s","t","u","v","w","x","y","z">>

\* the lower-case letter of each upper-case letter
ToLower ==
  [c \in {UpperCase[k] : k \in 1..Len(UpperCase)} |->
     LowerCase[CHOOSE k \in 1..Len(UpperCase) : UpperCase[k] = c]]

LowerChar(c) == IF c \in DOMAIN ToLower THEN ToLower[c] ELSE c

\* str.lower()
Lower(s) == [k \in 1..Len(s) |-> LowerChar(s[k])]

IsSpace(c) == c \in {" ", "\t", "\n"}

RECURSIVE LStrip(_)
LStrip(s) == IF s # <<>> /\ IsSpace(Head(s)) THEN LStrip(Tail(s)) ELSE s

RECURSIVE RStrip(_)
RStrip(s) ==
  IF s # <<>> /\ IsSpace(s[Len(s)]) THEN RStrip(SubSeq(s, 1, Len(s) - 1)) ELSE s

\* str.strip()
Strip(s) == RStrip(LStrip(s))

\* str(value) of a cell: a string is itself, nan prints as "nan"
PyStr(v) ==
  IF v = NaN THEN <<"n","a","n">>
  ELSE IF v = NoneCell THEN <<"N","o","n","e">>
  ELSE v

\* prefix.  s.startswith(p)
StartsWith(s, p) == Len(s) >= Len(p) /\ SubSeq(s, 1, Len(p)) = p

\* s.endswith(p)
EndsWith(s, p) == Len(s) >= Len(p) /\ SubSeq(s, Len(s) - Len(p) + 1, Len(s)) = p

\* k in s
Contains(s, k) ==
  \E p \in 0..(Len(s) - Len(k)) : SubSeq(s, p + 1, p + Len(k)) = k

DecimalDigits == <<"0","1","2","3","4","5","6","7","8","9">>

\* the decimal text of a natural number, as an f-string prints it
RECURSIVE Dec(_)
Dec(n) ==
  IF n < 10 THEN <<DecimalDigits[n + 1]>>
  ELSE Dec(n \div 10) \o <<DecimalDigits[(n % 10) + 1]>>

\* Characters in code-point order, for the order of sorted group keys.
CodePoints ==
  <<"\t", "\n", " ", "'", "(", ")", ",", "/",
    "0","1","2","3","4","5","6","7","8","9", ":">>
  \o UpperCase \o <<"_">> \o LowerCase

Ord(c) == CHOOSE k \in 1..Len(CodePoints) : CodePoints[k] = c

\* a < b for Python strings
RECURSIVE LtStr(_, _)
LtStr(a, b) ==
  IF b = <<>> THEN FALSE
  ELSE IF a = <<>> THEN TRUE
  ELSE IF Head(a) = Head(b) THEN LtStr(Tail(a), Tail(b))
  ELSE Ord(Head(a)) < Ord(Head(b))

\* sorted(keys) for a finite set of strings
RECURSIVE SortedStrs(_)
SortedStrs(S) ==
  IF S = {} THEN <<>>
  ELSE LET m == CHOOSE x \in S : \A y \in S \ {x} : LtStr(x, y)
       IN  <<m>> \o SortedStrs(S \ {m})

(***************************************************************************)
(* DataFrames                                                              *)
(***************************************************************************)

\* the elements of a sequence
ToSet(seq) == {seq[j] : j \in 1..Len(seq)}

\* pd.DataFrame()
EmptyDataFrame == [columns |-> <<>>, index |-> <<>>, rows |-> <<>>]

\* df.empty
IsEmpty(df) == Len(df.columns) = 0 \/ Len(df.rows) = 0

\* col in df.columns
HasColumn(df, col) == col \in ToSet(df.columns)

\* positions 1..len(df) of the rows
Positions(df) == 1..Len(df.rows)

\* row[col] of the row at position i
Cell(df, i, col) == df.rows[i][col]

\* row.get(col)
RowGet(row, col) == IF col \in DOMAIN row THEN row[col] ELSE NoneCell

\* df[cols]
SelectColumns(df, cols) ==
  LET keep == ToSet(cols)
  IN  [columns |-> cols,
       index   |-> df.index,
       rows    |-> [i \in 1..Len(df.rows) |-> [c \in keep |-> df.rows[i][c]]]]

\* df.drop(columns=cols, errors="ignore")
DropColumns(df, cols) ==
  LET drop == ToSet(cols)
  IN  SelectColumns(df, SelectSeq(df.columns, LAMBDA c : c \notin drop))

\* SetCells writing the first row of P only
SetFirstCell(df, P, col, value) ==
  [df EXCEPT !.rows =
     [i \in 1..Len(df.rows) |->
        IF i \in P /\ \A j \in P : i <= j
        THEN [df.rows[i] EXCEPT ![col] = value] ELSE df.rows[i]]]

\* df.loc[labels-at-positions P, col] = value
SetCells(df, P, col, value) ==
  [df EXCEPT !.rows =
     [i \in 1..Len(df.rows) |->
        IF i \in P THEN [df.rows[i] EXCEPT ![col] = value] ELSE df.rows[i]]]

\* the rows at the positions of seq ps, in that order (boolean-mask
\* selection and pd.concat of groups keep the row labels)
TakeRows(df, ps) ==
  [columns |-> df.columns,
   index   |-> [k \in 1..Len(ps) |-> df.index[ps[k]]],
   rows    |-> [k \in 1..Len(ps) |-> df.rows[ps[k]]]]

\* the positions of a set of naturals in increasing order
RECURSIVE Ascending(_)
Ascending(P) ==
  IF P = {} THEN <<>>
  ELSE LET m == CHOOSE x \in P : \A y \in P : x <= y
       IN  <<m>> \o Ascending(P \ {m})

(***************************************************************************)
(* Configuration (src/src/utils/config.py)                                 *)
(***************************************************************************)

ALLELE_PREFIX == <<"A","l","l","e","l","e">>

\* f"Allele {i}"
AlleleColumn(n) == ALLELE_PREFIX \o <<" ">> \o Dec(n)

GENDER_ALLELES_X == <<"A","l","l","e","l","e"," ","2","9">>
GENDER_ALLELES_Y == <<"A","l","l","e","l","e"," ","3","0">>

NEGATIVE_KEYWORDS == << <<"n","e","g">>, <<"t","e","m">> >>

SampleFileCol == <<"S","a","m","p","l","e"," ","F","i","l","e">>
SampleNameCol == <<"S","a","m","p","l","e"," ","N","a","m","e">>
PanelCol      == <<"P","a","n","e","l">>
MarkerCol     == <<"M","a","r","k","e","r">>
DyeCol        == <<"D","y","e">>

REQUIRED_COLUMNS ==
  <<SampleFileCol, SampleNameCol, PanelCol, MarkerCol, DyeCol>>
  \o [n \in 1..34 |-> AlleleColumn(n)]

COLUMNS_TO_DROP ==
  <<SampleFileCol, PanelCol, MarkerCol, DyeCol,
    <<"A","l","l","e","l","e"," ","3","1">>,
    <<"A","l","l","e","l","e"," ","3","2">>,
    <<"U","n","n","a","m","e","d",":"," ","3","9">> >>

\* the columns GeneticAnalyzer.prepare_data adds
SignatureCol     == <<"s","i","g","n","a","t","u","r","e">>
SignatureHashCol == <<"s","i","g","n","a","t","u","r","e","_","h","a","s","h">>
SignatureLenCol  == <<"s","i","g","n","a","t","u","r","e","_","l","e","n">>
GenreCol         == <<"G","e","n","r","e">>
PatientCol       == <<"P","a","t","i","e","n","t">>
IsNegCol         == <<"i","s","_","n","e","g">>
StatusTypeCol    == <<"s","t","a","t","u","s","_","t","y","p","e">>
StatusDescriptionCol ==
  <<"s","t","a","t","u","s","_","d","e","s","c","r","i","p","t","i","o","n">>

(***************************************************************************)
(* DataProcessor (src/src/data/processing.py)                              *)
(***************************************************************************)

\* DataProcessor.validate_file_format: the required columns the table lacks,
\* in the order of REQUIRED_COLUMNS
validate_file_format(df) ==
  LET present == ToSet(df.columns)
  IN  SelectSeq(REQUIRED_COLUMNS, LAMBDA col : col \notin present)

\* the text of the ValueError load_genemapper_data raises around exception e
ReadErrorMessage(e) ==
  [text |-> "Erreur lors de la lecture du fichier : ", detail |-> e]

\* DataProcessor.load_genemapper_data.  A file is what pd.read_csv makes of
\* it: [parses |-> FALSE] when read_csv raises, [parses |-> TRUE, df |-> t]
\* when it returns table t.  The outcome is the table returned or the
\* exception raised.
load_genemapper_data(file) ==
  IF ~file.parses
  THEN [raised |-> TRUE, df |-> EmptyDataFrame,
        error |-> ReadErrorMessage("read_csv error")]
  ELSE IF IsEmpty(file.df)
  THEN [raised |-> TRUE, df |-> EmptyDataFrame,
        error |-> ReadErrorMessage("Le fichier est vide ou mal formaté.")]
  ELSE [raised |-> FALSE, df |-> file.df, error |-> [text |-> "", detail |-> ""]]

\* DataProcessor.prepare_data
DataProcessor_prepare_data(df) == DropColumns(df, COLUMNS_TO_DROP)

(***************************************************************************)
(* GeneticAnalyzer (src/src/data/genetics.py)                              *)
(***************************************************************************)

\* GeneticAnalyzer._get_allele_columns on the analyzer's table
get_allele_columns(df) ==
  SelectSeq(df.columns,
    LAMBDA col : /\ StartsWith(col, ALLELE_PREFIX)
                 /\ col # GENDER_ALLELES_X
                 /\ col # GENDER_ALLELES_Y)

FEMME       == <<"f","e","m","m","e">>
HOMME       == <<"h","o","m","m","e">>
INDETERMINE == <<"i","n","d","é","t","e","r","m","i","n","é">>

\* determine_sex comparing the markers without regard to letter case
determine_sex_any_case(row) ==
  LET x == RowGet(row, GENDER_ALLELES_X)
      y == RowGet(row, GENDER_ALLELES_Y)
  IN  IF ~IsNa(x) /\ Lower(x) = <<"x">> /\ (IsNa(y) \/ y = <<>>) THEN FEMME
      ELSE IF ~IsNa(x) /\ Lower(x) = <<"x">> /\ ~IsNa(y) /\ Lower(y) = <<"y">> THEN HOMME
      ELSE INDETERMINE

\* GeneticAnalyzer.determine_sex
determine_sex(row) ==
  LET x == RowGet(row, GENDER_ALLELES_X)
      y == RowGet(row, GENDER_ALLELES_Y)
  IN  IF ~IsNa(x) /\ x = <<"X">> /\ (IsNa(y) \/ y = <<>>) THEN FEMME
      ELSE IF ~IsNa(x) /\ x = <<"X">> /\ ~IsNa(y) /\ y = <<"Y">> THEN HOMME
      ELSE INDETERMINE

\* compute_signature giving the kept values in sorted order, each once
compute_signature_sorted(row, allele_cols) ==
  SortedStrs({a \in {Strip(PyStr(row[allele_cols[k]])) : k \in 1..Len(allele_cols)} :
                a # <<>> /\ Lower(a) # <<"n","a","n">>})

\* compute_signature dropping the text "nan" in small letters only
compute_signature_exact_nan(row, allele_cols) ==
  LET alleles == [k \in 1..Len(allele_cols) |-> Strip(PyStr(row[allele_cols[k]]))]
  IN  SelectSeq(alleles, LAMBDA a : a # <<>> /\ a # <<"n","a","n">>)

\* GeneticAnalyzer.compute_signature, allele_cols being the analyzer's
\* self.allele_cols
compute_signature(row, allele_cols) ==
  LET alleles == [k \in 1..Len(allele_cols) |-> Strip(PyStr(row[allele_cols[k]]))]
  IN  SelectSeq(alleles, LAMBDA a : a # <<>> /\ Lower(a) # <<"n","a","n">>)

\* repr of a tuple element.  The strings of the model hold no quote and no
\* backslash, for which repr is the text between single quotes.
PyRepr(s) == <<"'">> \o s \o <<"'">>

\* str(tuple): "()", "('A',)", "('A', 'T')"
RECURSIVE JoinReprs(_)
JoinReprs(sig) ==
  IF Len(sig) = 1 THEN PyRepr(sig[1])
  ELSE PyRepr(Head(sig)) \o <<",", " ">> \o JoinReprs(Tail(sig))

PyStrTuple(sig) ==
  IF sig = <<>> THEN <<"(", ")">>
  ELSE IF Len(sig) = 1 THEN <<"(">> \o PyRepr(sig[1]) \o <<",", ")">>
  ELSE <<"(">> \o JoinReprs(sig) \o <<")">>

\* sha1(text).hexdigest().  The digest is not computed: SHA-1 is taken to be
\* collision free, and the digest of a text is the text under a tag.
Sha1Hex(text) == <<"sha1:">> \o text

\* compute_signature_hash of the number of kept values only
compute_signature_hash_of_len(row) == Sha1Hex(Dec(Len(row[SignatureCol])))

\* GeneticAnalyzer.compute_signature_hash
compute_signature_hash(row) == Sha1Hex(PyStrTuple(row[SignatureCol]))

\* GeneticAnalyzer.is_negative_control
is_negative_control(sample_name) ==
  IF sample_name = <<>> \/ sample_name = NoneCell THEN FALSE
  ELSE LET name == Lower(sample_name)
       IN  \E k \in 1..Len(NEGATIVE_KEYWORDS) : Contains(name, NEGATIVE_KEYWORDS[k])

\* Series.str.replace(r"^(.*?)(bis|ter)$", r"\1", regex=True) on one name:
\* one trailing "bis" or "ter" is removed.  "$" matches at the end of the
\* name and also just before a newline that ends it; "." matches no
\* newline, so a name with a newline before the suffix is left as it is.
PatientOf(sample_name) ==
  IF IsNa(sample_name) THEN sample_name
  ELSE
    LET n      == Len(sample_name)
        \* the name up to the place where "$" matches
        body   == IF n > 0 /\ sample_name[n] = "\n"
                  THEN SubSeq(sample_name, 1, n - 1) ELSE sample_name
        prefix == SubSeq(body, 1, Len(body) - 3)
    IN  IF /\ \/ EndsWith(body, <<"b","i","s">>)
              \/ EndsWith(body, <<"t","e","r">>)
           /\ ~Contains(prefix, <<"\n">>)
        THEN prefix \o SubSeq(sample_name, Len(body) + 1, n)
        ELSE sample_name

\* a direct call of GeneticAnalyzer.is_negative_control: nan is not falsy
\* and has no lower(), so the call raises AttributeError on it
is_negative_control_call(sample_name) ==
  IF sample_name = NaN
  THEN [raised |-> TRUE, value |-> FALSE]
  ELSE [raised |-> FALSE, value |-> is_negative_control(sample_name)]

\* the row of GeneticAnalyzer.prepare_data for one row of the analyzer's
\* table: each assignment of prepare_data, in its order, on that row
\* PreparedRow taking the Patient key from the Patient column when the row
\* has one
PreparedRowOfPatient(row, allele_cols) ==
  LET r1 == (SignatureCol :> compute_signature(row, allele_cols)) @@ row
      r2 == (SignatureHashCol :> compute_signature_hash(r1)) @@ r1
      r3 == (SignatureLenCol :> Len(r2[SignatureCol])) @@ r2
      r4 == (GenreCol :> determine_sex(r3)) @@ r3
      r5 == (PatientCol :> PatientOf(IF PatientCol \in DOMAIN row THEN row[PatientCol]
                                     ELSE r4[SampleNameCol])) @@ r4
      r6 == (IsNegCol :> is_negative_control(r5[SampleNameCol])) @@ r5
      r7 == (StatusTypeCol :> "success") @@ r6
  IN  (StatusDescriptionCol :> "") @@ r7

PreparedRow(row, allele_cols) ==
  LET r1 == (SignatureCol :> compute_signature(row, allele_cols)) @@ row
      r2 == (SignatureHashCol :> compute_signature_hash(r1)) @@ r1
      r3 == (SignatureLenCol :> Len(r2[SignatureCol])) @@ r2
      r4 == (GenreCol :> determine_sex(r3)) @@ r3
      r5 == (PatientCol :> PatientOf(r4[SampleNameCol])) @@ r4
      r6 == (IsNegCol :> is_negative_control(r5[SampleNameCol])) @@ r5
      r7 == (StatusTypeCol :> "success") @@ r6
  IN  (StatusDescriptionCol :> "") @@ r7

\* the names of the columns after df[col] = ... for each col of added, in
\* order: a new name is appended, a present one keeps its place
RECURSIVE WithColumns(_, _)
WithColumns(columns, added) ==
  IF added = <<>> THEN columns
  ELSE WithColumns(IF Head(added) \in ToSet(columns) THEN columns
                   ELSE Append(columns, Head(added)),
                   Tail(added))

\* GeneticAnalyzer(df).prepare_data().  It raises when the table has no
\* "Sample Name" column (KeyError) or a missing sample name (nan has no
\* lower()).
GeneticAnalyzer_prepare_data(df) ==
  IF \/ ~HasColumn(df, SampleNameCol)
     \/ \E i \in Positions(df) : Cell(df, i, SampleNameCol) = NaN
  THEN [raised |-> TRUE, df |-> EmptyDataFrame]
  ELSE
    LET allele_cols == get_allele_columns(df)
    IN  [raised |-> FALSE,
         df |-> [columns |-> WithColumns(df.columns,
                               <<SignatureCol, SignatureHashCol, SignatureLenCol,
                                 GenreCol, PatientCol, IsNegCol,
                                 StatusTypeCol, StatusDescriptionCol>>),
                 index   |-> df.index,
                 rows    |-> [i \in 1..Len(df.rows) |->
                               PreparedRow(df.rows[i], allele_cols)]]]

(***************************************************************************)
(* DataProcessor.merge_genotypes (src/src/data/processing.py)              *)
(***************************************************************************)

\* s.split("_")[-1]: the text after the last "_", the whole text without one
RECURSIVE LastField(_)
LastField(s) ==
  IF \E k \in 1..Len(s) : s[k] = "_"
  THEN LastField(SubSeq(s, (CHOOSE k \in 1..Len(s) : s[k] = "_") + 1, Len(s)))
  ELSE s

\* s.replace("nan", ""): every occurrence of "nan", left to right, removed
RECURSIVE RemoveNan(_)
RemoveNan(s) ==
  IF Len(s) < 3 THEN s
  ELSE IF SubSeq(s, 1, 3) = <<"n","a","n">> THEN RemoveNan(SubSeq(s, 4, Len(s)))
  ELSE <<Head(s)>> \o RemoveNan(Tail(s))

\* str(row[a]).strip().split("_")[-1].replace("nan", "")
NormalizeAllele(v) == RemoveNan(LastField(Strip(PyStr(v))))

\* combine giving two different values in sorted order
combine_sorted(v1, v2) ==
  LET val1 == NormalizeAllele(v1)
      val2 == NormalizeAllele(v2)
  IN  IF val1 = <<>> /\ val2 = <<>> THEN <<>>
      ELSE IF val1 # <<>> /\ val2 = <<>> THEN val1
      ELSE IF val1 = <<>> /\ val2 # <<>> THEN val2
      ELSE IF val1 = val2 THEN val1
      ELSE IF LtStr(val1, val2) THEN val1 \o <<"/">> \o val2
      ELSE val2 \o <<"/">> \o val1

\* combine(row) for the pair of columns (a1, a2), on a row holding their
\* values v1 and v2
combine(v1, v2) ==
  LET val1 == NormalizeAllele(v1)
      val2 == NormalizeAllele(v2)
  IN  IF val1 = <<>> /\ val2 = <<>> THEN <<>>
      ELSE IF val1 # <<>> /\ val2 = <<>> THEN val1
      ELSE IF val1 = <<>> /\ val2 # <<>> THEN val2
      ELSE IF val1 = val2 THEN val1
      ELSE val1 \o <<"/">> \o val2

\* f"Locus {idx}"
LocusColumn(k) == <<"L","o","c","u","s"," ">> \o Dec(k)

\* pairs: the number of (allele_cols[i], allele_cols[i + 1]) for i in
\* range(0, len(allele_cols) - 1, 2)
NumPairs(allele_cols) == Len(allele_cols) \div 2

\* merge_genotypes pairing the allele columns but the two sex markers
merge_genotypes_canonical(df) ==
  LET keeping_cols == SelectSeq(df.columns, LAMBDA col : ~StartsWith(col, ALLELE_PREFIX))
      allele_cols  == SelectSeq(df.columns,
                        LAMBDA col : /\ StartsWith(col, ALLELE_PREFIX)
                                     /\ col # GENDER_ALLELES_X
                                     /\ col # GENDER_ALLELES_Y)
      pairs        == Len(allele_cols) \div 2
      locus        == [k \in 1..pairs |-> <<"L","o","c","u","s"," ">> \o Dec(k)]
      merged_data  == SelectColumns(df, keeping_cols)
  IN  [columns |-> merged_data.columns \o locus,
       index   |-> merged_data.index,
       rows    |-> [i \in 1..Len(df.rows) |->
                     [c \in ToSet(locus) |->
                        LET k == CHOOSE q \in 1..pairs : locus[q] = c
                        IN  combine(df.rows[i][allele_cols[2 * k - 1]],
                                    df.rows[i][allele_cols[2 * k]])]
                     @@ merged_data.rows[i]]]

\* DataProcessor.merge_genotypes: the columns that are no allele column,
\* then one "Locus k" column per pair of allele columns
merge_genotypes(df) ==
  LET keeping_cols == SelectSeq(df.columns, LAMBDA col : ~StartsWith(col, ALLELE_PREFIX))
      allele_cols  == SelectSeq(df.columns, LAMBDA col : StartsWith(col, ALLELE_PREFIX))
      pairs        == NumPairs(allele_cols)
      locus        == [k \in 1..pairs |-> LocusColumn(k)]
      merged_data  == SelectColumns(df, keeping_cols)
  IN  [columns |-> merged_data.columns \o locus,
       index   |-> merged_data.index,
       rows    |-> [i \in 1..Len(df.rows) |->
                     [c \in ToSet(locus) |->
                        LET k == CHOOSE q \in 1..pairs : locus[q] = c
                        IN  combine(df.rows[i][allele_cols[2 * k - 1]],
                                    df.rows[i][allele_cols[2 * k]])]
                     @@ merged_data.rows[i]]]

(***************************************************************************)
(* IdentityVigilanceService (src/src/services/identity_vigilance.py)       *)
(***************************************************************************)

\* Python None as a return value
PyNone == [none |-> TRUE]

\* the message for missing columns: the fixed text and the list printed
\* after it
MissingColumnsMessage(missing_columns) ==
  [text   |-> "Le fichier ne semble pas au bon format.\n\nColonnes manquantes : ",
   detail |-> missing_columns]

\* The try block of load_and_validate_file on a service whose data processor
\* holds table dp: the value returned or the exception raised, and the table
\* the data processor holds afterwards.
load_and_validate_try(dp, file) ==
  LET loaded == load_genemapper_data(file)
  IN  IF loaded.raised
      THEN [raised |-> TRUE, exception |-> loaded.error,
            df |-> PyNone, error |-> PyNone, data_processor |-> dp]
      ELSE LET missing_columns == validate_file_format(loaded.df)
           IN  IF missing_columns # <<>>
               THEN [raised |-> FALSE, exception |-> PyNone,
                     df |-> PyNone,
                     error |-> MissingColumnsMessage(missing_columns),
                     data_processor |-> loaded.df]
               ELSE [raised |-> FALSE, exception |-> PyNone,
                     df |-> loaded.df, error |-> PyNone,
                     data_processor |-> loaded.df]

\* load_and_validate_file without its except clause
load_and_validate_uncaught(dp, file) == load_and_validate_try(dp, file)

\* IdentityVigilanceService.load_and_validate_file: the try block, and
\* "except Exception as e: return None, str(e)"
load_and_validate_file(dp, file) ==
  LET r == load_and_validate_try(dp, file)
  IN  IF r.raised
      THEN [r EXCEPT !.raised = FALSE, !.exception = PyNone,
                     !.df = PyNone, !.error = r.exception]
      ELSE r

\* IdentityVigilanceService.prepare_data on a service whose data processor
\* holds table dp; the argument df is not read.  Gives the outcome and the
\* table of the new genetic analyzer.
prepare_data(dp, df) ==
  LET prepared_df == DataProcessor_prepare_data(dp)
      out         == GeneticAnalyzer_prepare_data(prepared_df)
  IN  [raised |-> out.raised, df |-> out.df, genetic_analyzer |-> prepared_df]

\* the positions of the rows of one patient group
GroupPositions(df, pid) == {i \in Positions(df) : Cell(df, i, PatientCol) = pid}

\* StatusIsSuccess reading the status column of the whole table
StatusIsSuccessAnywhere(df, P) ==
  LET u == {Cell(df, i, StatusTypeCol) : i \in Positions(df)}
  IN  [raised |-> Cardinality(u) > 1, value |-> u = {"success"}]

\* StatusIsSuccess with the comparison negated
StatusIsNotSuccess(df, P) ==
  LET u == {Cell(df, i, StatusTypeCol) : i \in P}
  IN  [raised |-> Cardinality(u) > 1, value |-> u # {"success"}]

\* "df.loc[group.index, "status_type"].unique() == "success"" used as a
\* condition: the truth value of a one-element array is its element, and
\* the truth value of a longer array raises ValueError.
StatusIsSuccess(df, P) ==
  LET u == {Cell(df, i, StatusTypeCol) : i \in P}
  IN  [raised |-> Cardinality(u) > 1, value |-> u = {"success"}]

\* both status cells of the rows at positions P, when the guard is true
SetStatusIf(df, P, guard, type, description) ==
  IF guard.raised THEN [raised |-> TRUE, df |-> df]
  ELSE IF guard.value
  THEN [raised |-> FALSE,
        df |-> SetCells(SetCells(df, P, StatusTypeCol, type),
                        P, StatusDescriptionCol, description)]
  ELSE [raised |-> FALSE, df |-> df]

Always == [raised |-> FALSE, value |-> TRUE]

\* IntraGroup without the branch on Genre
IntraGroupNoSexRule(df, pid) ==
  LET P     == GroupPositions(df, pid)
      first == CHOOSE i \in P : \A j \in P : i <= j
  IN  IF Cardinality(P) = 1 /\ ~Cell(df, first, IsNegCol)
      THEN SetStatusIf(df, P, StatusIsSuccess(df, P), "warning", "Echantillon unique")
      ELSE IF Cardinality(P) = 1 /\ Cell(df, first, IsNegCol)
      THEN IF \E i \in P : Cell(df, i, SignatureLenCol) # 0
           THEN SetStatusIf(df, P, Always, "error", "Contrôle négatif avec alleles")
           ELSE SetStatusIf(df, P, StatusIsSuccess(df, P), "info", "Contrôle négatif")
      ELSE IF Cardinality({Cell(df, i, SignatureCol) : i \in P}) > 1
      THEN SetStatusIf(df, P, StatusIsSuccess(df, P), "error", "Incohérente de SNPs")
      ELSE [raised |-> FALSE, df |-> df]

\* IntraGroup with the branch on Genre before the branch on signature
IntraGroupSexFirst(df, pid) ==
  LET P     == GroupPositions(df, pid)
      first == CHOOSE i \in P : \A j \in P : i <= j
  IN  IF Cardinality(P) = 1 /\ ~Cell(df, first, IsNegCol)
      THEN SetStatusIf(df, P, StatusIsSuccess(df, P), "warning", "Echantillon unique")
      ELSE IF Cardinality(P) = 1 /\ Cell(df, first, IsNegCol)
      THEN IF \E i \in P : Cell(df, i, SignatureLenCol) # 0
           THEN SetStatusIf(df, P, Always, "error", "Contrôle négatif avec alleles")
           ELSE SetStatusIf(df, P, StatusIsSuccess(df, P), "info", "Contrôle négatif")
      ELSE IF Cardinality({Cell(df, i, GenreCol) : i \in P}) > 1
      THEN SetStatusIf(df, P, StatusIsSuccess(df, P), "error", "Incohérence de genre")
      ELSE IF Cardinality({Cell(df, i, SignatureCol) : i \in P}) > 1
      THEN SetStatusIf(df, P, StatusIsSuccess(df, P), "error", "Incohérente de SNPs")
      ELSE [raised |-> FALSE, df |-> df]

\* IntraGroup with the lone negative control told by its signature being
\* empty: a control with alleles is handled as a lone sample
IntraGroupNegByEmptiness(df, pid) ==
  LET P     == GroupPositions(df, pid)
      first == CHOOSE i \in P : \A j \in P : i <= j
      neg   == Cell(df, first, IsNegCol) /\ Cell(df, first, SignatureLenCol) = 0
  IN  IF Cardinality(P) = 1 /\ ~neg
      THEN SetStatusIf(df, P, StatusIsSuccess(df, P), "warning", "Echantillon unique")
      ELSE IF Cardinality(P) = 1 /\ neg
      THEN SetStatusIf(df, P, StatusIsSuccess(df, P), "info", "Contrôle négatif")
      ELSE IF Cardinality({Cell(df, i, SignatureCol) : i \in P}) > 1
      THEN SetStatusIf(df, P, StatusIsSuccess(df, P), "error", "Incohérente de SNPs")
      ELSE IF Cardinality({Cell(df, i, GenreCol) : i \in P}) > 1
      THEN SetStatusIf(df, P, StatusIsSuccess(df, P), "error", "Incohérence de genre")
      ELSE [raised |-> FALSE, df |-> df]

\* IntraGroup with the rule of the negative control applied to groups of any
\* size
IntraGroupControlsOfAnySize(df, pid) ==
  LET P     == GroupPositions(df, pid)
      first == CHOOSE i \in P : \A j \in P : i <= j
  IN  IF Cardinality(P) = 1 /\ ~Cell(df, first, IsNegCol)
      THEN SetStatusIf(df, P, StatusIsSuccess(df, P), "warning", "Echantillon unique")
      ELSE IF Cell(df, first, IsNegCol)
      THEN IF \E i \in P : Cell(df, i, SignatureLenCol) # 0
           THEN SetStatusIf(df, P, Always, "error", "Contrôle négatif avec alleles")
           ELSE SetStatusIf(df, P, StatusIsSuccess(df, P), "info", "Contrôle négatif")
      ELSE IF Cardinality({Cell(df, i, SignatureCol) : i \in P}) > 1
      THEN SetStatusIf(df, P, StatusIsSuccess(df, P), "error", "Incohérente de SNPs")
      ELSE IF Cardinality({Cell(df, i, GenreCol) : i \in P}) > 1
      THEN SetStatusIf(df, P, StatusIsSuccess(df, P), "error", "Incohérence de genre")
      ELSE [raised |-> FALSE, df |-> df]

\* the body of the loop of _intra_comparison for the group of patient pid
IntraGroup(df, pid) ==
  LET P     == GroupPositions(df, pid)
      first == CHOOSE i \in P : \A j \in P : i <= j
  IN  IF Cardinality(P) = 1 /\ ~Cell(df, first, IsNegCol)
      THEN SetStatusIf(df, P, StatusIsSuccess(df, P), "warning", "Echantillon unique")
      ELSE IF Cardinality(P) = 1 /\ Cell(df, first, IsNegCol)
      THEN IF \E i \in P : Cell(df, i, SignatureLenCol) # 0
           THEN SetStatusIf(df, P, Always, "error", "Contrôle négatif avec alleles")
           ELSE SetStatusIf(df, P, StatusIsSuccess(df, P), "info", "Contrôle négatif")
      ELSE IF Cardinality({Cell(df, i, SignatureCol) : i \in P}) > 1
      THEN SetStatusIf(df, P, StatusIsSuccess(df, P), "error", "Incohérente de SNPs")
      ELSE IF Cardinality({Cell(df, i, GenreCol) : i \in P}) > 1
      THEN SetStatusIf(df, P, StatusIsSuccess(df, P), "error", "Incohérence de genre")
      ELSE [raised |-> FALSE, df |-> df]

\* the loop of _intra_comparison over the remaining group keys
RECURSIVE IntraLoop(_, _)
IntraLoop(df, keys) ==
  IF keys = <<>> THEN [raised |-> FALSE, df |-> df]
  ELSE LET r == IntraGroup(df, Head(keys))
       IN  IF r.raised THEN r ELSE IntraLoop(r.df, Tail(keys))

\* IdentityVigilanceService._intra_comparison: groupby("Patient") visits the
\* groups in the sorted order of their keys
intra_comparison(df) ==
  IntraLoop(df, SortedStrs({Cell(df, i, PatientCol) : i \in Positions(df)}))

\* the positions of the rows of one signature_hash bucket
BucketPositions(df, P, h) == {i \in P : Cell(df, i, SignatureHashCol) = h}

\* the rows collected by the loop of _inter_comparison over the remaining
\* bucket keys: a bucket is kept whole when it spans several Patient values
RECURSIVE InterLoop(_, _, _)
InterLoop(df, P, keys) ==
  IF keys = <<>> THEN <<>>
  ELSE LET group == BucketPositions(df, P, Head(keys))
       IN  (IF Cardinality({Cell(df, i, PatientCol) : i \in group}) > 1
            THEN Ascending(group) ELSE <<>>)
           \o InterLoop(df, P, Tail(keys))

\* inter_comparison without the filter on signature_len
inter_comparison_unfiltered(df) ==
  LET filtered   == Positions(df)
      keys       == SortedStrs({Cell(df, i, SignatureHashCol) : i \in filtered})
      duplicated == InterLoop(df, filtered, keys)
  IN  IF duplicated # <<>>
      THEN DropColumns(TakeRows(df, duplicated),
             <<SignatureCol, IsNegCol, SignatureLenCol,
               StatusTypeCol, StatusDescriptionCol>>)
      ELSE EmptyDataFrame

\* IdentityVigilanceService._inter_comparison.  groupby("signature_hash")
\* visits the buckets in the sorted order of the digests; the model, which
\* does not compute digests, visits them in the sorted order of the hashed
\* texts.
inter_comparison(df) ==
  LET filtered   == {i \in Positions(df) : Cell(df, i, SignatureLenCol) > 0}
      keys       == SortedStrs({Cell(df, i, SignatureHashCol) : i \in filtered})
      duplicated == InterLoop(df, filtered, keys)
  IN  IF duplicated # <<>>
      THEN DropColumns(TakeRows(df, duplicated),
             <<SignatureCol, IsNegCol, SignatureLenCol,
               StatusTypeCol, StatusDescriptionCol>>)
      ELSE EmptyDataFrame

\* the "Locus ..." columns of a table, in order
LocusColumns(df) ==
  SelectSeq(df.columns, LAMBDA col : StartsWith(col, <<"L","o","c","u","s">>))

\* IdentityVigilanceService.format_intra_comparison
format_intra_comparison(df) ==
  SelectColumns(df,
    <<PatientCol, SampleNameCol, GenreCol, StatusDescriptionCol, StatusTypeCol>>
    \o LocusColumns(df))

\* IdentityVigilanceService.format_inter_comparison
format_inter_comparison(df) ==
  SelectColumns(df,
    <<PatientCol, SampleNameCol, GenreCol>> \o LocusColumns(df)
    \o <<SignatureHashCol>>)

\* NegControlClean starting from True: true of a table without negative
\* control
NegControlCleanVacuous(df_intra) ==
  LET neg_control_rows == {i \in Positions(df_intra) : Cell(df_intra, i, IsNegCol)}
  IN  \A i \in neg_control_rows : Cell(df_intra, i, SignatureLenCol) = 0

\* neg_control_clean of perform_intra_comparison, from the compared table
NegControlClean(df_intra) ==
  LET neg_control_rows == {i \in Positions(df_intra) : Cell(df_intra, i, IsNegCol)}
  IN  IF neg_control_rows # {}
      THEN \A i \in neg_control_rows : Cell(df_intra, i, SignatureLenCol) = 0
      ELSE FALSE

\* IdentityVigilanceService.perform_intra_comparison
perform_intra_comparison(prepared_data) ==
  LET r == intra_comparison(prepared_data)
  IN  IF r.raised
      THEN [raised |-> TRUE, df_intra |-> EmptyDataFrame,
            error_count |-> 0, neg_control_clean |-> FALSE]
      ELSE LET df_intra == format_intra_comparison(merge_genotypes(r.df))
           IN  [raised            |-> FALSE,
                df_intra          |-> df_intra,
                error_count       |->
                  Cardinality({i \in Positions(df_intra) :
                                 Cell(df_intra, i, StatusTypeCol) = "error"}),
                neg_control_clean |-> NegControlClean(r.df)]

\* perform_inter_comparison counting the colliding buckets, not their rows
perform_inter_comparison_by_bucket(prepared_data) ==
  LET df_inter == inter_comparison(prepared_data)
  IN  [df_inter    |-> IF ~IsEmpty(df_inter)
                       THEN format_inter_comparison(merge_genotypes(df_inter))
                       ELSE df_inter,
       error_count |-> Cardinality({df_inter.rows[k][SignatureHashCol] :
                                      k \in 1..Len(df_inter.rows)})]

\* IdentityVigilanceService.perform_inter_comparison
perform_inter_comparison(prepared_data) ==
  LET df_inter == inter_comparison(prepared_data)
  IN  [df_inter    |-> IF ~IsEmpty(df_inter)
                       THEN format_inter_comparison(merge_genotypes(df_inter))
                       ELSE df_inter,
       error_count |-> Len(df_inter.rows)]

\* Series.unique(): the values in the order of their first appearance
RECURSIVE Unique(_)
Unique(values) ==
  IF values = <<>> THEN <<>>
  ELSE LET front == Unique(SubSeq(values, 1, Len(values) - 1))
           last  == values[Len(values)]
       IN  IF last \in ToSet(front) THEN front ELSE Append(front, last)

\* df[df["Sample Name"] == patient][allele_columns].values.flatten(): the
\* cells of the rows of that name under the columns, row after row.  nan
\* is equal to nothing, itself included.
Flattened(df, patient, allele_columns) ==
  LET named == SelectSeq([i \in 1..Len(df.rows) |-> i],
                 LAMBDA i : ~IsNa(patient) /\ Cell(df, i, SampleNameCol) = patient)
      m     == Len(allele_columns)
  IN  [k \in 1..(Len(named) * m) |->
         Cell(df, named[((k - 1) \div m) + 1], allele_columns[((k - 1) % m) + 1])]

\* CommonPositions without the positions where both values are missing
CommonPositionsOfPresent(sample_1, sample_2) ==
  {k \in 1..(IF Len(sample_1) < Len(sample_2) THEN Len(sample_1) ELSE Len(sample_2)) :
     ~IsNa(sample_1[k]) /\ ~IsNa(sample_2[k]) /\ sample_1[k] = sample_2[k]}

\* CommonPositions with the positions where the first value is missing
CommonPositionsFirstMissing(sample_1, sample_2) ==
  {k \in 1..(IF Len(sample_1) < Len(sample_2) THEN Len(sample_1) ELSE Len(sample_2)) :
     \/ IsNa(sample_1[k])
     \/ ~IsNa(sample_1[k]) /\ ~IsNa(sample_2[k]) /\ sample_1[k] = sample_2[k]}

\* the positions zip(sample_1, sample_2) that add one to common_alleles
CommonPositions(sample_1, sample_2) ==
  {k \in 1..(IF Len(sample_1) < Len(sample_2) THEN Len(sample_1) ELSE Len(sample_2)) :
     \/ IsNa(sample_1[k]) /\ IsNa(sample_2[k])
     \/ ~IsNa(sample_1[k]) /\ ~IsNa(sample_2[k]) /\ sample_1[k] = sample_2[k]}

\* pd.NA, the entry of a comparison without position
NA == [na |-> TRUE]

\* IdentityPercentage leaving out of the total the positions where exactly
\* one value is missing
IdentityPercentageOfComparable(sample_1, sample_2) ==
  LET n == IF Len(sample_1) < Len(sample_2) THEN Len(sample_1) ELSE Len(sample_2)
      total_alleles  == Cardinality({k \in 1..n : IsNa(sample_1[k]) <=> IsNa(sample_2[k])})
      common_alleles == Cardinality({k \in 1..n :
                          \/ IsNa(sample_1[k]) /\ IsNa(sample_2[k])
                          \/ ~IsNa(sample_1[k]) /\ ~IsNa(sample_2[k])
                               /\ sample_1[k] = sample_2[k]})
  IN  IF total_alleles > 0
      THEN [common |-> common_alleles, total |-> total_alleles]
      ELSE [na |-> TRUE]

\* identity_percentage of two flattened samples.  The float
\* (common_alleles / total_alleles) * 100 is kept as the two counts.
IdentityPercentage(sample_1, sample_2) ==
  LET total_alleles  == IF Len(sample_1) < Len(sample_2)
                        THEN Len(sample_1) ELSE Len(sample_2)
      common_alleles == Cardinality(CommonPositions(sample_1, sample_2))
  IN  IF total_alleles > 0
      THEN [common |-> common_alleles, total |-> total_alleles]
      ELSE NA

\* IdentityVigilanceService._sample_heatmap on a service whose genetic
\* analyzer holds table analyzer: it raises KeyError when df lacks
\* "Sample Name" or one of the compared columns; otherwise comparison_matrix,
\* its labels in index and the entry of labels index[i], index[j] in
\* cells[i][j].
sample_heatmap(analyzer, df) ==
  LET allele_columns == get_allele_columns(analyzer) \o <<GenreCol>>
  IN  IF \/ ~HasColumn(df, SampleNameCol)
         \/ \E c \in ToSet(allele_columns) : ~HasColumn(df, c)
      THEN [raised |-> TRUE, index |-> <<>>, cells |-> <<>>]
      ELSE
        LET patient_ids == Unique([i \in 1..Len(df.rows) |-> Cell(df, i, SampleNameCol)])
            flat        == [p \in 1..Len(patient_ids) |->
                              Flattened(df, patient_ids[p], allele_columns)]
        IN  [raised |-> FALSE,
             index  |-> patient_ids,
             cells  |-> [p \in 1..Len(patient_ids) |->
                          [q \in 1..Len(patient_ids) |->
                             IdentityPercentage(flat[p], flat[q])]]]

(***************************************************************************)
(* Inputs: the files a caller uploads                                      *)
(***************************************************************************)

\* the largest number of samples of an uploaded batch
MaxRows == 3

\* the largest number of files loaded through one service object
MaxLoads == 2

\* the largest number of intra comparisons of one prepared table
MaxIntraRuns == 2

\* sample names of the batches
SampleNames ==
  << <<"P","1">>, <<"P","1","b","i","s">>, <<"P","2">>, <<"n","e","g">> >>

\* allele calls of a sample: the first two allele slots and the two sex
\* markers; every other slot of the sample is missing
Profiles ==
  << [a1 |-> NaN,     a2 |-> NaN,     x |-> NaN,     y |-> NaN],
     [a1 |-> NaN,     a2 |-> NaN,     x |-> <<"X">>, y |-> NaN],
     [a1 |-> <<"A">>, a2 |-> <<"T">>, x |-> <<"X">>, y |-> <<"Y">>],
     [a1 |-> <<"A">>, a2 |-> <<"T">>, x |-> <<"X">>, y |-> NaN],
     [a1 |-> <<"T">>, a2 |-> <<"A">>, x |-> <<"X">>, y |-> <<"Y">>] >>

\* one line of a GeneMapper export, as read_csv reads it, under the columns
\* cols
FileRow(cols, name, p) ==
  [c \in ToSet(cols) |->
     IF c = SampleNameCol THEN name
     ELSE IF c = AlleleColumn(1) THEN p.a1
     ELSE IF c = AlleleColumn(2) THEN p.a2
     ELSE IF c = GENDER_ALLELES_X THEN p.x
     ELSE IF c = GENDER_ALLELES_Y THEN p.y
     ELSE IF StartsWith(c, ALLELE_PREFIX) THEN NaN
     ELSE <<"m">>]

\* the kinds of sample: a name and a profile, <<n, p>> standing for
\* SampleNames[n] with Profiles[p]
KindList ==
  << <<1, 1>>, <<1, 3>>, <<1, 4>>, <<1, 5>>,
     <<2, 1>>, <<2, 3>>, <<2, 4>>, <<2, 5>>,
     <<3, 1>>, <<3, 3>>,
     <<4, 1>>, <<4, 2>>, <<4, 3>> >>

RowKinds ==
  [k \in 1..Len(KindList) |->
     [name    |-> SampleNames[KindList[k][1]],
      profile |-> Profiles[KindList[k][2]]]]

\* the table read_csv returns for a file with columns cols and one line per
\* element of kinds
FileTable(cols, kinds) ==
  [columns |-> cols,
   index   |-> [i \in 1..Len(kinds) |-> i],
   rows    |-> [i \in 1..Len(kinds) |->
                 FileRow(cols, RowKinds[kinds[i]].name, RowKinds[kinds[i]].profile)]]

\* the batches of one run: every well-formed file of 1..MaxRows samples, the
\* samples listed in the order of their kinds
BatchFiles ==
  { [parses |-> TRUE, df |-> FileTable(REQUIRED_COLUMNS, kinds)] :
      kinds \in UNION { { q \in [1..n -> 1..Len(RowKinds)] :
                            \A i \in 1..(n - 1) : q[i] <= q[i + 1] } :
                        n \in 1..MaxRows } }

\* REQUIRED_COLUMNS without the columns of the set missing
ColumnsWithout(missing) == SelectSeq(REQUIRED_COLUMNS, LAMBDA c : c \notin missing)

\* the files given to a long-lived service: unreadable, empty, lacking
\* columns, and well formed
ServiceFiles ==
  { [parses |-> FALSE, df |-> EmptyDataFrame],
    [parses |-> TRUE,  df |-> FileTable(REQUIRED_COLUMNS, <<>>)],
    [parses |-> TRUE,  df |-> FileTable(ColumnsWithout({SampleFileCol, PanelCol}), <<2, 6>>)],
    [parses |-> TRUE,  df |-> FileTable(ColumnsWithout({AlleleColumn(2), AlleleColumn(34)}), <<4>>)],
    [parses |-> TRUE,  df |-> FileTable(ColumnsWithout({SampleNameCol}), <<2>>)],
    [parses |-> TRUE,  df |-> FileTable(REQUIRED_COLUMNS, <<2, 6>>)],
    [parses |-> TRUE,  df |-> FileTable(REQUIRED_COLUMNS, <<3, 10, 11>>)],
    [parses |-> TRUE,  df |-> FileTable(REQUIRED_COLUMNS, <<4, 8>>)] }

(***************************************************************************)
(* Inputs: the tables a test hands to the service, and the names it asks   *)
(* about                                                                   *)
(***************************************************************************)

\* a table with the columns "Sample Name" and "Allele n" for the n of
\* numbers, and one row per sample: its name and its cells, one for each
\* allele column in order
SampleTable(numbers, samples) ==
  LET cols == <<SampleNameCol>> \o [k \in 1..Len(numbers) |-> AlleleColumn(numbers[k])]
  IN  [columns |-> cols,
       index   |-> [i \in 1..Len(samples) |-> i],
       rows    |-> [i \in 1..Len(samples) |->
                     [c \in ToSet(cols) |->
                        IF c = SampleNameCol THEN samples[i].name
                        ELSE samples[i].cells[CHOOSE k \in 1..Len(numbers) :
                                                AlleleColumn(numbers[k]) = c]]]]

\* the cell values of an allele slot: missing, two calls, a call after a
\* blank and the text NAN
AlleleValues == {NaN, <<"A">>, <<"T">>, <<" ", "A">>, <<"N", "A", "N">>}

\* two allele slots, the two sex markers and a slot the data processor
\* drops
SignatureNumbers == <<1, 2, 29, 30, 31>>

\* the cells of a second sample, given those of a first: the same, one
\* cell changed, or the two allele cells swapped
Variants(cells) ==
  {cells}
  \cup {[cells EXCEPT ![k] = v] : k \in 1..2, v \in AlleleValues}
  \cup {[cells EXCEPT ![1] = cells[2], ![2] = cells[1]]}
  \cup {[cells EXCEPT ![4] = NaN], [cells EXCEPT ![5] = <<"A">>]}

\* two samples of different patients, the cells of the second a variant of
\* the cells of the first
SignatureTables ==
  UNION { { SampleTable(SignatureNumbers,
              << [name |-> <<"P","1">>, cells |-> c],
                 [name |-> <<"P","2">>, cells |-> d] >>) : d \in Variants(c) } :
          c \in { <<a1, a2, <<"X">>, <<"Y">>, NaN>> :
                    a1 \in AlleleValues, a2 \in AlleleValues } }

\* the cell values of a sex-marker slot
MarkerValues ==
  {NaN, NoneCell, <<>>, <<"X">>, <<"Y">>, <<"x">>, <<"y">>, <<" ", "X">>, <<" ">>}

\* one sample with every pair of marker values, and samples of tables
\* without one or both of the marker columns
SexTables ==
  { SampleTable(<<1, 29, 30>>,
      << [name |-> <<"P","1">>, cells |-> <<(<<"A">>), x, y>>] >>) :
      x \in MarkerValues, y \in MarkerValues }
  \cup { SampleTable(<<1, 29>>,
           << [name |-> <<"P","1">>, cells |-> <<(<<"A">>), x>>] >>) :
           x \in MarkerValues }
  \cup { SampleTable(<<1, 30>>,
           << [name |-> <<"P","1">>, cells |-> <<(<<"A">>), y>>] >>) :
           y \in MarkerValues }
  \cup { SampleTable(<<1>>, << [name |-> <<"P","1">>, cells |-> <<(<<"A">>)>>] >>) }

\* sample names: plain, with a suffix, with a suffix twice, in capitals, the
\* suffix alone, the suffix before a blank or a line break, after a line
\* break, controls, and a missing name
TableNames ==
  { <<"P","1">>, <<"P","1","b","i","s">>, <<"P","1","t","e","r">>,
    <<"P","1","b","i","s","b","i","s">>, <<"P","1","B","I","S">>,
    <<"b","i","s">>, <<"P","1","b","i","s"," ">>, <<"P","1","b","i","s","\n">>,
    <<"P","\n","b","i","s">>, <<"P","1","b","i">>, <<"P","1","t","e","r","a">>,
    <<"n","e","g">>, <<"T","E","M","1">>, NaN }

\* two samples with any two names
NameTables ==
  { SampleTable(<<1, 2, 29, 30>>,
      << [name |-> n1, cells |-> <<(<<"A">>), <<"T">>, <<"X">>, <<"Y">>>>],
         [name |-> n2, cells |-> <<NaN, <<"T">>, <<"X">>, <<"Y">>>>] >>) :
      n1 \in TableNames, n2 \in TableNames }

\* three samples, two of them of one name
RepeatTables ==
  { SampleTable(<<1, 2, 29, 30>>,
      << [name |-> <<"P","1">>, cells |-> <<(<<"A">>), <<"T">>, <<"X">>, <<"Y">>>>],
         [name |-> n2,          cells |-> <<(<<"A">>), <<"T">>, <<"X">>, y>>],
         [name |-> n3,          cells |-> <<a, <<"T">>, <<"X">>, <<"Y">>>>] >>) :
      n2 \in {<<"P","1">>, <<"P","2">>}, n3 \in {<<"P","1">>, <<"P","2">>},
      a \in {<<"A">>, <<"T">>, NaN}, y \in {<<"Y">>, NaN} }

\* the slots of a panel of fifteen alleles and the two sex markers
PanelNumbers == <<1, 2, 3, 4, 5, 6, 7, 8, 9, 10, 11, 12, 13, 14, 15, 29, 30>>

\* a male sample with every allele called, or missing
PanelCells(v) == [k \in 1..Len(PanelNumbers) - 2 |-> v] \o << <<"X">>, <<"Y">> >>

\* two samples of the panel: the same, or different in one cell
PanelTables ==
  UNION { { SampleTable(PanelNumbers,
              << [name |-> <<"P","1">>, cells |-> PanelCells(v)],
                 [name |-> <<"P","2">>, cells |-> d] >>) :
            d \in {PanelCells(v)}
                  \cup {[PanelCells(v) EXCEPT ![k] = w] :
                          k \in 1..Len(PanelNumbers), w \in {<<"T">>, NaN}} } :
          v \in {<<"A">>, NaN} }

\* the cell values of an allele slot of a table to merge: missing, a call,
\* a call after a blank, calls with an annotation, an annotation without
\* call, and texts holding the letters nan
MergeValues ==
  { NaN, <<"A">>, <<"T">>, <<" ","T">>, <<"0","5","_","T">>, <<"0","_","5","_","A">>,
    <<"0","5","_">>, <<"N","A","N">>, <<"n","a","n","o">>, <<"T","_","n","a","n">> }

\* one sample with every pair of values in its first two slots: a table of
\* three allele slots, and tables with the sex markers before or after
\* another pair
MergeTables ==
  { SampleTable(numbers,
      << [name  |-> <<"P","1">>,
          cells |-> <<v1, v2>> \o [k \in 1..(Len(numbers) - 2) |->
                                    IF numbers[k + 2] = 29 THEN <<"X">>
                                    ELSE IF numbers[k + 2] = 30 THEN <<"Y">>
                                    ELSE <<"0","7","_","C">>]] >>) :
      v1 \in MergeValues, v2 \in MergeValues,
      numbers \in { <<1, 2, 3>>, <<1, 2, 29, 30, 33, 34>>, <<1, 2, 3, 29, 30>> } }

\* the tables of the analyzer's tests
AnalyzerTables ==
  SignatureTables \cup SexTables \cup NameTables \cup RepeatTables \cup PanelTables
  \cup MergeTables

\* the names is_negative_control is asked about
CalledNames ==
  { NoneCell, <<>>, NaN, <<"n","e","g">>, <<"T","E","M","1">>,
    <<"P","1">>, <<"s","y","s","t","e","m">>, <<"n","e","-","g">> }

(***************************************************************************)
(* State                                                                   *)
(***************************************************************************)

VARIABLES
  data_processor,    \* service.data_processor.df
  genetic_analyzer,  \* service.genetic_analyzer.df
  file,              \* the file of the latest load_and_validate_file
  load_result,       \* what the latest load_and_validate_file returned
  df,                \* the table the caller got from the latest good load
  prepared_data,     \* what the latest prepare_data returned
  intra_first,       \* what the first perform_intra_comparison on
                     \* prepared_data returned
  intra_result,      \* what the latest perform_intra_comparison returned
  inter_result,      \* what the latest perform_inter_comparison returned
  loads,             \* number of files loaded so far
  intra_runs,        \* number of perform_intra_comparison calls on
                     \* prepared_data so far
  heatmap,           \* the comparison matrix of the latest generate_heatmap
  neg_call,          \* the latest direct call of is_negative_control
  merged_data,       \* what the latest merge_genotypes returned
  prepared_again,    \* what GeneticAnalyzer.prepare_data returned for the prepared table
  flagged_call       \* what _intra_comparison returned for a table with rows flagged beforehand

vars ==
  <<data_processor, genetic_analyzer, file, load_result, df, prepared_data,
    intra_first, intra_result, inter_result, loads, intra_runs,
    heatmap, neg_call, merged_data, prepared_again, flagged_call>>

\* IdentityVigilanceService.__init__, before any call
Init ==
  /\ data_processor = EmptyDataFrame
  /\ genetic_analyzer = EmptyDataFrame
  /\ file = PyNone
  /\ load_result = PyNone
  /\ df = PyNone
  /\ prepared_data = PyNone
  /\ intra_first = PyNone
  /\ intra_result = PyNone
  /\ inter_result = PyNone
  /\ loads = 0
  /\ intra_runs = 0
  /\ heatmap = PyNone
  /\ neg_call = PyNone
  /\ merged_data = PyNone
  /\ prepared_again = PyNone
  /\ flagged_call = PyNone

\* df, error = service.load_and_validate_file(f)
LoadAndValidateFile(f) ==
  LET r == load_and_validate_file(data_processor, f)
  IN  /\ loads < MaxLoads
      /\ loads' = loads + 1
      /\ file' = f
      /\ load_result' = [raised |-> r.raised, df |-> r.df, error |-> r.error]
      /\ data_processor' = r.data_processor
      /\ df' = IF ~r.raised /\ r.df # PyNone THEN r.df ELSE df
      /\ UNCHANGED <<genetic_analyzer, prepared_data, intra_first,
                     intra_result, inter_result, intra_runs, heatmap, neg_call,
                     merged_data,
                     prepared_again,
                     flagged_call>>

\* prepared_data = service.prepare_data(df); arg keeps the table the caller
\* passed
PrepareData ==
  LET r == prepare_data(data_processor, df)
  IN  /\ df # PyNone
      /\ genetic_analyzer' = r.genetic_analyzer
      /\ prepared_data' = [raised |-> r.raised, df |-> r.df, arg |-> df]
      /\ intra_first' = PyNone
      /\ intra_result' = PyNone
      /\ inter_result' = PyNone
      /\ intra_runs' = 0
      /\ heatmap' = PyNone
      /\ merged_data' = PyNone
      /\ prepared_again' = PyNone
      /\ flagged_call' = PyNone
      /\ UNCHANGED <<data_processor, file, load_result, df, loads, neg_call>>

\* a table prepare_data returned is at hand
HasPrepared == prepared_data # PyNone /\ ~prepared_data.raised

\* df_intra, errors_intra, neg_control_is_clean =
\*   service.perform_intra_comparison(prepared_data)
PerformIntraComparison ==
  /\ HasPrepared
  /\ intra_runs < MaxIntraRuns
  /\ intra_runs' = intra_runs + 1
  /\ intra_result' = perform_intra_comparison(prepared_data.df)
  /\ intra_first' = IF intra_first = PyNone THEN intra_result' ELSE intra_first
  /\ UNCHANGED <<data_processor, genetic_analyzer, file, load_result, df,
                 prepared_data, inter_result, loads, heatmap, neg_call,
                 merged_data,
                 prepared_again,
                 flagged_call>>

\* df_inter, errors_inter = service.perform_inter_comparison(prepared_data)
PerformInterComparison ==
  /\ HasPrepared
  /\ inter_result' = perform_inter_comparison(prepared_data.df)
  /\ UNCHANGED <<data_processor, genetic_analyzer, file, load_result, df,
                 prepared_data, intra_first, intra_result, loads, intra_runs,
                 heatmap, neg_call,
                 merged_data,
                 prepared_again,
                 flagged_call>>

\* any sequence of calls on one service object
Next ==
  \/ \E f \in ServiceFiles : LoadAndValidateFile(f)
  \/ PrepareData
  \/ PerformIntraComparison
  \/ PerformInterComparison

Spec == Init /\ [][Next]_vars

\* comparison_matrix = service._sample_heatmap(prepared_data), the first
\* step of generate_heatmap
GenerateHeatmap ==
  /\ HasPrepared
  /\ heatmap = PyNone
  /\ heatmap' = sample_heatmap(genetic_analyzer, prepared_data.df)
  /\ UNCHANGED <<data_processor, genetic_analyzer, file, load_result, df,
                 prepared_data, intra_first, intra_result, inter_result, loads,
                 intra_runs, neg_call,
                 merged_data,
                 prepared_again,
                 flagged_call>>

\* process_uploaded_file (src/main.py) on the first batch given to the
\* service: the file is loaded and, unless the load reports an error,
\* prepared and compared, in this order.  perform_intra_comparison is a
\* method any caller may use again on the table prepare_data returned.
RunLoad == loads = 0 /\ \E f \in BatchFiles : LoadAndValidateFile(f)

RunPrepare == prepared_data = PyNone /\ PrepareData

RunIntra == prepared_data # PyNone /\ PerformIntraComparison

RunInter == intra_result # PyNone /\ inter_result = PyNone /\ PerformInterComparison

\* heatmap = service.generate_heatmap(prepared_data), after the comparisons
RunHeatmap == inter_result # PyNone /\ GenerateHeatmap

NextRun == RunLoad \/ RunPrepare \/ RunIntra \/ RunInter \/ RunHeatmap

SpecRun == Init /\ [][NextRun]_vars

\* service.data_processor = DataProcessor(t) on a new service, as the tests
\* of the service do before they call prepare_data(t)
SetDataProcessor(t) ==
  /\ df = PyNone
  /\ neg_call = PyNone
  /\ data_processor' = t
  /\ df' = t
  /\ UNCHANGED <<genetic_analyzer, file, load_result, prepared_data, intra_first,
                 intra_result, inter_result, loads, intra_runs, heatmap, neg_call,
                 merged_data,
                 prepared_again,
                 flagged_call>>

\* analyzer.is_negative_control(name) on a new analyzer
IsNegativeControl(name) ==
  /\ df = PyNone
  /\ neg_call = PyNone
  /\ neg_call' = [name |-> name] @@ is_negative_control_call(name)
  /\ UNCHANGED <<data_processor, genetic_analyzer, file, load_result, df,
                 prepared_data, intra_first, intra_result, inter_result, loads,
                 intra_runs, heatmap,
                 merged_data,
                 prepared_again,
                 flagged_call>>

\* merged = data_processor.merge_genotypes(table) on the prepared table, as
\* perform_intra_comparison and perform_inter_comparison call it
MergeGenotypes ==
  /\ HasPrepared
  /\ merged_data = PyNone
  /\ merged_data' = merge_genotypes(prepared_data.df)
  /\ UNCHANGED <<data_processor, genetic_analyzer, file, load_result, df,
                 prepared_data, intra_first, intra_result, inter_result, loads,
                 intra_runs, heatmap, neg_call,
                 prepared_again,
                 flagged_call>>

\* GeneticAnalyzer(prepared).prepare_data(): the signature derivation run on
\* the table a first run returned
PrepareAgain ==
  /\ HasPrepared
  /\ prepared_again = PyNone
  /\ prepared_again' = GeneticAnalyzer_prepare_data(prepared_data.df)
  /\ UNCHANGED <<data_processor, genetic_analyzer, file, load_result, df,
                 prepared_data, intra_first, intra_result, inter_result, loads,
                 intra_runs, heatmap, neg_call, merged_data,
                 flagged_call>>

\* the tests of the analyzer: a table is prepared and its samples compared,
\* or one name is asked about
NextAnalyzer ==
  \/ \E t \in AnalyzerTables : SetDataProcessor(t)
  \/ \E name \in CalledNames : IsNegativeControl(name)
  \/ RunPrepare
  \/ GenerateHeatmap
  \/ MergeGenotypes
  \/ PrepareAgain

SpecAnalyzer == Init /\ [][NextAnalyzer]_vars

\* table t with the rows at the positions of set flagged carrying the status
\* of an earlier pass
Flagged(t, flagged) ==
  SetCells(SetCells(t, flagged, StatusTypeCol, "error"),
           flagged, StatusDescriptionCol, "no alleles found")

\* service._intra_comparison(t) for the prepared table with some of its rows
\* flagged beforehand
IntraComparisonOfFlagged ==
  /\ HasPrepared
  /\ flagged_call = PyNone
  /\ \E flagged \in (SUBSET Positions(prepared_data.df)) \ {{}} :
       flagged_call' = [flagged |-> flagged,
                        input   |-> Flagged(prepared_data.df, flagged)]
                       @@ intra_comparison(Flagged(prepared_data.df, flagged))
  /\ UNCHANGED <<data_processor, genetic_analyzer, file, load_result, df,
                 prepared_data, intra_first, intra_result, inter_result, loads,
                 intra_runs, heatmap, neg_call, merged_data, prepared_again>>

\* a batch is loaded and prepared, and the intra comparison is given the
\* table after an earlier pass flagged some of its rows
NextFlagged == RunLoad \/ RunPrepare \/ IntraComparisonOfFlagged

SpecFlagged == Init /\ [][NextFlagged]_vars

(***************************************************************************)
(* Properties of the intra-patient comparison                              *)
(***************************************************************************)

\* the table prepare_data returned, which the comparisons are given
Prep == prepared_data.df

\* the latest intra comparison returned a table
IntraDone == intra_result # PyNone /\ ~intra_result.raised

\* status of the row at position i of the intra result
Status(i) == intra_result.df_intra.rows[i][StatusTypeCol]

Description(i) == intra_result.df_intra.rows[i][StatusDescriptionCol]

Signature(i) == Prep.rows[i][SignatureCol]

Sex(i) == Prep.rows[i][GenreCol]

IsNeg(i) == Prep.rows[i][IsNegCol]

\* the positions of the rows of the patient of row i
Group(i) ==
  {j \in Positions(Prep) : Prep.rows[j][PatientCol] = Prep.rows[i][PatientCol]}

SameSignature(P) == \A i, j \in P : Signature(i) = Signature(j)

SameSex(P) == \A i, j \in P : Sex(i) = Sex(j)

\* C1: in every patient group of more than one row of a freshly prepared
\* table, all members end with status success if and only if all members
\* have the same signature and the same inferred sex; two rows of one
\* patient that both end as success have equal signatures and equal sex.
C1_GroupSuccessIffConsistent ==
  IntraDone =>
    \A i \in Positions(Prep) :
      Cardinality(Group(i)) > 1 =>
        /\ (\A j \in Group(i) : Status(j) = "success")
             <=> (SameSignature(Group(i)) /\ SameSex(Group(i)))
        /\ \A j \in Group(i) :
             Status(i) = "success" /\ Status(j) = "success"
               => Signature(i) = Signature(j) /\ Sex(i) = Sex(j)

\* a group of two samples with different names, the same signature and the
\* same sex, both left as success
C1_Witness ==
  /\ IntraDone
  /\ \E i, j \in Positions(Prep) :
       /\ j \in Group(i)
       /\ Prep.rows[i][SampleNameCol] # Prep.rows[j][SampleNameCol]
       /\ Signature(i) # <<>>
       /\ Status(i) = "success" /\ Status(j) = "success"

\* C2: in every patient group of more than one row whose members do not all
\* have the same signature, every member, those of the majority signature
\* included, ends with status error and description "Incohérente de SNPs".
C2_InconsistentSignatureMarksAll ==
  IntraDone =>
    \A i \in Positions(Prep) :
      Cardinality(Group(i)) > 1 /\ ~SameSignature(Group(i)) =>
        Status(i) = "error" /\ Description(i) = "Incohérente de SNPs"

\* a group of three in which two members agree and the third differs: the
\* two of the majority are errors too
C2_Witness ==
  /\ IntraDone
  /\ \E i, j, k \in Positions(Prep) :
       /\ i # j /\ j \in Group(i) /\ k \in Group(i)
       /\ Signature(i) = Signature(j) /\ Signature(k) # Signature(i)
       /\ Status(i) = "error" /\ Status(j) = "error" /\ Status(k) = "error"
       /\ Description(i) = "Incohérente de SNPs"

\* C3: in every patient group of more than one row whose signatures are all
\* identical and whose inferred sex differs, every member ends with status
\* error and description "Incohérence de genre"; when signatures and sexes
\* both differ the description is "Incohérente de SNPs", not the sex one.
C3_SexRuleAfterSignatureRule ==
  IntraDone =>
    \A i \in Positions(Prep) :
      Cardinality(Group(i)) > 1 /\ ~SameSex(Group(i)) =>
        /\ Status(i) = "error"
        /\ Description(i) = IF SameSignature(Group(i))
                            THEN "Incohérence de genre"
                            ELSE "Incohérente de SNPs"
        /\ ~SameSignature(Group(i)) => Description(i) # "Incohérence de genre"

\* a group with one non-empty signature, a man and a woman
C3_Witness ==
  /\ IntraDone
  /\ \E i, j \in Positions(Prep) :
       /\ j \in Group(i)
       /\ Signature(i) = Signature(j) /\ Signature(i) # <<>>
       /\ Sex(i) = HOMME /\ Sex(j) = FEMME
       /\ Status(i) = "error" /\ Status(j) = "error"
       /\ Description(i) = "Incohérence de genre"
       /\ Description(j) = "Incohérence de genre"

(***************************************************************************)
(* Properties of the inter-patient comparison                              *)
(***************************************************************************)

\* the rows the inter comparison returned
Inter == inter_result.df_inter

\* the positions of the prepared rows with a non-empty signature whose
\* signature hash is also the hash of a row of another patient
Colliding ==
  {i \in Positions(Prep) :
     /\ Signature(i) # <<>>
     /\ \E j \in Positions(Prep) :
          /\ Prep.rows[j][SignatureHashCol] = Prep.rows[i][SignatureHashCol]
          /\ Prep.rows[j][PatientCol] # Prep.rows[i][PatientCol]}

\* C4: the inter-patient result holds exactly the rows that have a non-empty
\* signature and whose signature hash is shared by rows of at least two
\* patients, each once; every row of it has another row of it with the same
\* hash and another patient; no row with an empty signature is in it.
C4_InterResultIsCollidingRows ==
  inter_result # PyNone =>
    /\ ToSet(Inter.index) = {Prep.index[i] : i \in Colliding}
    /\ Len(Inter.rows) = Cardinality(Colliding)
    /\ inter_result.error_count = Cardinality(Colliding)
    /\ \A k \in 1..Len(Inter.rows) :
         /\ \E i \in Colliding :
              /\ Prep.index[i] = Inter.index[k]
              /\ Prep.rows[i][SampleNameCol] = Inter.rows[k][SampleNameCol]
         /\ \E m \in 1..Len(Inter.rows) :
              /\ Inter.rows[m][SignatureHashCol] = Inter.rows[k][SignatureHashCol]
              /\ Inter.rows[m][PatientCol] # Inter.rows[k][PatientCol]
    /\ \A i \in Positions(Prep) :
         Signature(i) = <<>> => Prep.index[i] \notin ToSet(Inter.index)

\* a bucket of three rows, two of them of one patient, reported whole
C4_Witness ==
  /\ inter_result # PyNone
  /\ Len(Inter.rows) = 3
  /\ \E k, m \in 1..Len(Inter.rows) :
       k # m /\ Inter.rows[k][PatientCol] = Inter.rows[m][PatientCol]

(***************************************************************************)
(* Properties of the statuses of lone samples and of the returned flag     *)
(***************************************************************************)

\* C5: every sample with an empty signature that is no negative control ends
\* the intra comparison with status error, whatever the size of its group.
C5_EmptySignatureIsError ==
  IntraDone =>
    \A i \in Positions(Prep) :
      Signature(i) = <<>> /\ ~IsNeg(i) => Status(i) = "error"

\* C6: a negative control alone in its group ends with status error and
\* description "Contrôle négatif avec alleles" when its signature length is
\* greater than 0, with status info and description "Contrôle négatif" when
\* its signature is empty; it never ends as warning or success.
C6_LoneNegativeControl ==
  IntraDone =>
    \A i \in Positions(Prep) :
      Cardinality(Group(i)) = 1 /\ IsNeg(i) =>
        /\ Len(Signature(i)) > 0 =>
             Status(i) = "error" /\ Description(i) = "Contrôle négatif avec alleles"
        /\ Signature(i) = <<>> =>
             Status(i) = "info" /\ Description(i) = "Contrôle négatif"
        /\ Status(i) \notin {"warning", "success"}

\* a lone negative control with alleles, reported as an error
C6_Witness ==
  /\ IntraDone
  /\ \E i \in Positions(Prep) :
       /\ Cardinality(Group(i)) = 1 /\ IsNeg(i) /\ Len(Signature(i)) > 0
       /\ Status(i) = "error"

\* C7: a sample alone in its group that is no negative control and has a
\* non-empty signature ends with status warning and description
\* "Echantillon unique".
C7_LoneSampleIsWarning ==
  IntraDone =>
    \A i \in Positions(Prep) :
      Cardinality(Group(i)) = 1 /\ ~IsNeg(i) /\ Signature(i) # <<>> =>
        Status(i) = "warning" /\ Description(i) = "Echantillon unique"

\* a lone sample with alleles beside a group of two
C7_Witness ==
  /\ IntraDone
  /\ \E i, j \in Positions(Prep) :
       /\ Cardinality(Group(i)) = 1 /\ ~IsNeg(i) /\ Signature(i) # <<>>
       /\ Status(i) = "warning"
       /\ Cardinality(Group(j)) = 2

NegativeControls == {i \in Positions(Prep) : IsNeg(i)}

\* the file's allele cells of the sample at position i, sex markers included
AlleleCells(i) ==
  {file.df.rows[i][c] : c \in {d \in ToSet(file.df.columns) : StartsWith(d, ALLELE_PREFIX)}}

\* C9 as stated: the flag is true if and only if every negative control of
\* the batch has no allele call, sex-marker slots included; so it is true of
\* a batch without negative control.
C9_FlagIffNoControlHasAlleles ==
  IntraDone =>
    (intra_result.neg_control_clean
       <=> \A i \in NegativeControls : \A v \in AlleleCells(i) : IsNa(v))

\* C9 amended: the flag is true if and only if the batch has at least one
\* negative control and the signature of every negative control is empty,
\* the signature leaving out the sex markers.
C9_FlagIffControlsPresentAndEmpty ==
  IntraDone =>
    (intra_result.neg_control_clean
       <=> /\ NegativeControls # {}
           /\ \A i \in NegativeControls : Signature(i) = <<>>)

\* a batch whose negative control has its X marker called and nothing else:
\* the flag is true
C9_Witness ==
  /\ IntraDone
  /\ intra_result.neg_control_clean
  /\ \E i \in NegativeControls : file.df.rows[i][GENDER_ALLELES_X] = <<"X">>

(***************************************************************************)
(* Properties of load_and_validate_file                                    *)
(***************************************************************************)

\* the file of the latest load was read as a table with rows
Readable == file.parses /\ ~IsEmpty(file.df)

\* the required columns the table of the file lacks
MissingRequired == ToSet(REQUIRED_COLUMNS) \ ToSet(file.df.columns)

\* C10: load_and_validate_file raises nothing; it returns the table and no
\* error exactly when the file parses to a non-empty table with every
\* required column; otherwise it returns no table and a message: the
\* missing-columns message listing exactly the required columns the file
\* lacks, or, for an empty or unparseable file, the read-error message.
C10_LoadNeverRaises ==
  load_result # PyNone =>
    /\ ~load_result.raised
    /\ IF Readable /\ MissingRequired = {}
       THEN load_result.df = file.df /\ load_result.error = PyNone
       ELSE /\ load_result.df = PyNone
            /\ load_result.error # PyNone
            /\ IF Readable
               THEN /\ load_result.error.text = MissingColumnsMessage(<<>>).text
                    /\ ToSet(load_result.error.detail) = MissingRequired
                    /\ Len(load_result.error.detail) = Cardinality(MissingRequired)
               ELSE load_result.error.text = ReadErrorMessage("").text

\* a file lacking two required columns was refused, after a file that could
\* not be read
C10_Witness ==
  /\ load_result # PyNone
  /\ loads = 2
  /\ Readable
  /\ Cardinality(MissingRequired) = 2
  /\ load_result.df = PyNone
  /\ ToSet(load_result.error.detail) = MissingRequired

(***************************************************************************)
(* Properties of the signature and its hash                                *)
(***************************************************************************)

\* the columns of the prepared table whose name starts with "Allele"
AlleleColumns == {c \in ToSet(Prep.columns) : StartsWith(c, ALLELE_PREFIX)}

\* the canonical allele columns: those of the analyzer's table but the two
\* sex markers, in the order of the table
CanonicalColumns ==
  SelectSeq(genetic_analyzer.columns,
    LAMBDA c : StartsWith(c, ALLELE_PREFIX) /\ c \notin {GENDER_ALLELES_X, GENDER_ALLELES_Y})

\* the prepared table has its first two allele slots and both sex markers
TwoSlotTable ==
  /\ HasPrepared
  /\ {AlleleColumn(1), AlleleColumn(2), GENDER_ALLELES_X, GENDER_ALLELES_Y}
       \subseteq ToSet(Prep.columns)

\* the value of a cell as the signature reads it
Trimmed(v) == Strip(PyStr(v))

SignatureHash(i) == Prep.rows[i][SignatureHashCol]

\* rows i and j have the same allele values but for the canonical columns
\* c1 and c2, whose two different values are swapped
Swapped(i, j, c1, c2) ==
  /\ c1 # c2
  /\ Cell(Prep, i, c1) # Cell(Prep, i, c2)
  /\ Cell(Prep, j, c1) = Cell(Prep, i, c2)
  /\ Cell(Prep, j, c2) = Cell(Prep, i, c1)
  /\ \A c \in AlleleColumns \ {c1, c2} : Cell(Prep, j, c) = Cell(Prep, i, c)

\* a value the signature keeps: not empty once trimmed and not "nan" in
\* any letter case
Kept(v) == Trimmed(v) # <<>> /\ Lower(Trimmed(v)) # <<"n","a","n">>

OneAlleleChanged(i, j) ==
  Cardinality({c \in AlleleColumns : Cell(Prep, i, c) # Cell(Prep, j, c)}) = 1

\* C12 as stated: two samples with equal signatures have equal signature
\* hashes, and two samples that differ in the value of one allele column
\* have different signature hashes.
C12_AnyChangeChangesHash ==
  HasPrepared =>
    \A i, j \in Positions(Prep) :
      /\ Signature(i) = Signature(j) => SignatureHash(i) = SignatureHash(j)
      /\ OneAlleleChanged(i, j) => SignatureHash(i) # SignatureHash(j)

\* C12 amended: two samples have equal signature hashes exactly when their
\* signatures are equal, so that a change of one allele value changes the
\* hash exactly when it changes the signature.
C12_HashEqualIffSignatureEqual ==
  HasPrepared =>
    \A i, j \in Positions(Prep) :
      SignatureHash(i) = SignatureHash(j) <=> Signature(i) = Signature(j)

\* two samples that differ in the call of their first slot only were
\* prepared: their signatures have the same length, and their hashes differ
C12_Witness ==
  /\ TwoSlotTable
  /\ \E i, j \in Positions(Prep) :
       /\ OneAlleleChanged(i, j)
       /\ Cell(Prep, i, AlleleColumn(1)) = <<"A">>
       /\ Cell(Prep, j, AlleleColumn(1)) = <<"T">>
       /\ Cell(Prep, i, AlleleColumn(2)) = <<"T">>
       /\ Len(Signature(i)) = Len(Signature(j))
       /\ SignatureHash(i) # SignatureHash(j)

\* the trimmed values of the canonical columns of row i, in column order
TrimmedCanonical(i) ==
  [k \in 1..Len(CanonicalColumns) |-> Trimmed(Cell(Prep, i, CanonicalColumns[k]))]

\* C13 as stated: the signature of a sample is the sequence of the trimmed
\* values of its canonical allele columns, in column order, without exactly
\* the values that are empty or the text "nan".
C13_SignatureDropsLiteralNan ==
  HasPrepared =>
    \A i \in Positions(Prep) :
      Signature(i) = SelectSeq(TrimmedCanonical(i),
                       LAMBDA a : a # <<>> /\ a # <<"n","a","n">>)

\* C13 amended: the signature of a sample is the sequence of the trimmed
\* values of its canonical allele columns, in column order, without exactly
\* the values that are empty or equal to "nan" in any letter case; no value
\* of a sex marker is in it.
C13_SignatureDropsNanInAnyCase ==
  HasPrepared =>
    \A i \in Positions(Prep) :
      /\ Signature(i) = SelectSeq(TrimmedCanonical(i),
                          LAMBDA a : a # <<>> /\ Lower(a) # <<"n","a","n">>)
      /\ GENDER_ALLELES_X \notin ToSet(CanonicalColumns)
      /\ GENDER_ALLELES_Y \notin ToSet(CanonicalColumns)
      /\ Len(Signature(i)) <= Len(CanonicalColumns)

\* a sample with the text NAN in its first slot and a call after a blank in
\* its second was prepared: its signature is the call alone, trimmed
C13_Witness ==
  /\ TwoSlotTable
  /\ \E i \in Positions(Prep) :
       /\ Cell(Prep, i, AlleleColumn(1)) = <<"N","A","N">>
       /\ Cell(Prep, i, AlleleColumn(2)) = <<" ","A">>
       /\ Cell(Prep, i, GENDER_ALLELES_X) = <<"X">>
       /\ Signature(i) = << <<"A">> >>

(***************************************************************************)
(* Properties of the inferred sex                                          *)
(***************************************************************************)

\* the X-marker slot of row i holds exactly "X"
XPresent(i) ==
  /\ GENDER_ALLELES_X \in ToSet(Prep.columns)
  /\ Cell(Prep, i, GENDER_ALLELES_X) = <<"X">>

\* the Y-marker slot of row i is missing or empty
YEmpty(i) ==
  \/ GENDER_ALLELES_Y \notin ToSet(Prep.columns)
  \/ Cell(Prep, i, GENDER_ALLELES_Y) \in {NaN, NoneCell, <<>>}

\* the Y-marker slot of row i holds exactly "Y"
YPresent(i) ==
  /\ GENDER_ALLELES_Y \in ToSet(Prep.columns)
  /\ Cell(Prep, i, GENDER_ALLELES_Y) = <<"Y">>

\* C14: the sex of a sample is "femme" when its X marker is exactly "X" and
\* its Y marker is empty or missing, "homme" when its X marker is exactly
\* "X" and its Y marker exactly "Y", and "indéterminé" in every other case,
\* the rows of a table without the marker columns included.
C14_SexFromMarkers ==
  HasPrepared =>
    \A i \in Positions(Prep) :
      Sex(i) = IF XPresent(i) /\ YEmpty(i) THEN <<"f","e","m","m","e">>
               ELSE IF XPresent(i) /\ YPresent(i) THEN <<"h","o","m","m","e">>
               ELSE <<"i","n","d","é","t","e","r","m","i","n","é">>

\* a sample of a table without the Y-marker column and with "X" in its X
\* marker was prepared as "femme"
C14_Witness ==
  /\ HasPrepared
  /\ GENDER_ALLELES_Y \notin ToSet(Prep.columns)
  /\ \E i \in Positions(Prep) : XPresent(i) /\ Sex(i) = <<"f","e","m","m","e">>

(***************************************************************************)
(* Properties of is_negative_control                                       *)
(***************************************************************************)

\* a name is null (None, or the nan of an empty cell) or empty
NullOrEmpty(name) == IsNa(name) \/ name = <<>>

\* the lower-cased name contains "neg" or "tem"
HasKeyword(name) ==
  \/ Contains(Lower(name), <<"n","e","g">>)
  \/ Contains(Lower(name), <<"t","e","m">>)

\* C15: a call of is_negative_control raises nothing; it returns false for
\* a null or empty name, and for any other name it returns true if and
\* only if the lower-cased name contains "neg" or "tem".
C15_NegativeControlNeverRaises ==
  neg_call # PyNone =>
    /\ ~neg_call.raised
    /\ neg_call.value = IF NullOrEmpty(neg_call.name) THEN FALSE
                        ELSE HasKeyword(neg_call.name)

(***************************************************************************)
(* Properties of the Patient key                                           *)
(***************************************************************************)

SampleName(i) == Prep.rows[i][SampleNameCol]

PatientKey(i) == Prep.rows[i][PatientCol]

\* the name ends with the literal "bis" or "ter"
HasSuffix(name) ==
  \/ EndsWith(name, <<"b","i","s">>)
  \/ EndsWith(name, <<"t","e","r">>)

\* the name without its last three characters when it ends with "bis" or
\* "ter", the name otherwise
WithoutSuffix(name) ==
  IF HasSuffix(name) THEN SubSeq(name, 1, Len(name) - 3) ELSE name

\* C16: the Patient key of every sample is its Sample Name without one
\* trailing "bis" or "ter" when the name ends with it, and the Sample Name
\* otherwise, so that "P1", "P1bis" and "P1ter" have one key and nothing
\* else is stripped.
C16_PatientKeyStripsSuffix ==
  HasPrepared =>
    \A i \in Positions(Prep) : PatientKey(i) = WithoutSuffix(SampleName(i))

(***************************************************************************)
(* Properties of the similarity matrix                                     *)
(***************************************************************************)

\* generate_heatmap built a matrix of the prepared table
HeatmapDone == HasPrepared /\ heatmap # PyNone /\ ~heatmap.raised

\* the labels of the matrix, by position
Labels == 1..Len(heatmap.index)

\* the entry of the labels at positions p and q
Entry(p, q) == heatmap.cells[p][q]

\* the position of the label of row i
LabelOf(i) == CHOOSE p \in Labels : heatmap.index[p] = SampleName(i)

\* an entry that is a percentage: the float (common / total) * 100
Defined(e) == e # NA

\* the percentage of the entry is 100
IsHundred(e) == Defined(e) /\ e.total > 0 /\ e.common = e.total

\* every allele slot of row i is missing
AllMissing(i) == \A c \in ToSet(CanonicalColumns) : IsNa(Cell(Prep, i, c))

\* C17: for every sample s of a prepared table the entry matrix[s][s] is
\* 100, the samples whose allele slots are all missing included.
C17_SelfIdentity ==
  HeatmapDone =>
    \A i \in Positions(Prep) : IsHundred(Entry(LabelOf(i), LabelOf(i)))

\* the matrix of a table with a sample whose allele slots are all missing
\* was built, and the entry of this sample with itself is 100
C17_Witness ==
  /\ HeatmapDone
  /\ CanonicalColumns # <<>>
  /\ \E i \in Positions(Prep) :
       AllMissing(i) /\ IsHundred(Entry(LabelOf(i), LabelOf(i)))

\* C18: the matrix is symmetric, and every entry that is defined is a
\* percentage from 0 to 100.
C18_SymmetricAndBounded ==
  HeatmapDone =>
    \A p, q \in Labels :
      /\ Entry(p, q) = Entry(q, p)
      /\ Defined(Entry(p, q)) =>
           /\ Entry(p, q).total > 0
           /\ 0 <= Entry(p, q).common
           /\ Entry(p, q).common <= Entry(p, q).total

\* the matrix of two samples, one of them with a missing slot where the
\* other has a call, was built: their two entries are the same percentage,
\* above 0 and below 100
C18_Witness ==
  /\ HeatmapDone
  /\ \E i, j \in Positions(Prep) :
       /\ SampleName(i) # SampleName(j)
       /\ \E c \in ToSet(CanonicalColumns) :
            IsNa(Cell(Prep, i, c)) /\ ~IsNa(Cell(Prep, j, c))
       /\ Entry(LabelOf(i), LabelOf(j)) = Entry(LabelOf(j), LabelOf(i))
       /\ Entry(LabelOf(i), LabelOf(j)).common > 0
       /\ Entry(LabelOf(i), LabelOf(j)).common < Entry(LabelOf(i), LabelOf(j)).total

\* the compared positions: the canonical allele columns and the inferred sex
ComparedColumns == ToSet(CanonicalColumns) \cup {GenreCol}

\* the compared positions where rows i and j are both missing, or both
\* present and equal
Matching(i, j) ==
  {c \in ComparedColumns :
     \/ IsNa(Cell(Prep, i, c)) /\ IsNa(Cell(Prep, j, c))
     \/ /\ ~IsNa(Cell(Prep, i, c))
        /\ ~IsNa(Cell(Prep, j, c))
        /\ Cell(Prep, i, c) = Cell(Prep, j, c)}

\* no other row has the Sample Name of row i
OwnName(i) == \A j \in Positions(Prep) \ {i} : SampleName(j) # SampleName(i)

C20_EveryRowIsAnEntry ==
  HeatmapDone =>
    /\ Len(heatmap.index) = Len(Prep.rows)
    /\ \A p, q \in Labels :
         Defined(Entry(p, q)) /\ Entry(p, q).total = Cardinality(ComparedColumns)

(***************************************************************************)
(* Properties of the genotype merge                                        *)
(***************************************************************************)

\* merge_genotypes returned a table for the prepared table
MergeDone == HasPrepared /\ merged_data # PyNone

\* the columns of the prepared table whose name starts with "Allele", in
\* table order
AllAlleleColumns ==
  SelectSeq(Prep.columns, LAMBDA c : StartsWith(c, ALLELE_PREFIX))

\* those columns without the two sex markers
CanonicalOfPrepared ==
  SelectSeq(AllAlleleColumns,
    LAMBDA c : c \notin {GENDER_ALLELES_X, GENDER_ALLELES_Y})

\* the columns of the prepared table that are no allele column
OtherColumns ==
  SelectSeq(Prep.columns, LAMBDA c : ~StartsWith(c, ALLELE_PREFIX))

\* the name of the k-th merged column
Locus(k) == <<"L","o","c","u","s"," ">> \o Dec(k)

\* the merged pairs of the merged table
MergedPairs == {k \in 1..Len(AllAlleleColumns) : Locus(k) \in ToSet(merged_data.columns)}

\* the two normalized values of pair k of row i
First(i, k) == NormalizeAllele(Cell(Prep, i, AllAlleleColumns[2 * k - 1]))

Second(i, k) == NormalizeAllele(Cell(Prep, i, AllAlleleColumns[2 * k]))

\* C21: for every merged pair of every sample, v1 and v2 being the
\* normalized values, the Locus value is empty when both are empty, the
\* non-empty one when one is empty, that value when both are the same, and
\* v1, "/", v2 in column order when they differ.
C21_CombineRule ==
  MergeDone =>
    \A i \in Positions(Prep) : \A k \in MergedPairs :
      merged_data.rows[i][Locus(k)] =
        IF First(i, k) = <<>> /\ Second(i, k) = <<>> THEN <<>>
        ELSE IF Second(i, k) = <<>> THEN First(i, k)
        ELSE IF First(i, k) = <<>> THEN Second(i, k)
        ELSE IF First(i, k) = Second(i, k) THEN First(i, k)
        ELSE First(i, k) \o <<"/">> \o Second(i, k)

\* a sample with the calls T and 0_5_A in its first pair was merged: its
\* Locus 1 is T/A
C21_Witness ==
  /\ MergeDone
  /\ Len(AllAlleleColumns) >= 2
  /\ \E i \in Positions(Prep) :
       /\ Cell(Prep, i, AllAlleleColumns[1]) = <<" ","T">>
       /\ Cell(Prep, i, AllAlleleColumns[2]) = <<"0","_","5","_","A">>
       /\ merged_data.rows[i][Locus(1)] = <<"T","/","A">>

\* the text after the last "_" of a text, the text itself without "_"
AfterLastUnderscore(t) ==
  LET marks == {k \in 1..Len(t) : t[k] = "_"}
  IN  IF marks = {} THEN t
      ELSE SubSeq(t, (CHOOSE k \in marks : \A j \in marks : j <= k) + 1, Len(t))

\* the normalized value as stated: trimmed, the part after the last "_",
\* empty when this is the text "nan", unchanged otherwise
StatedNormal(v) ==
  LET t == AfterLastUnderscore(Trimmed(v))
  IN  IF t = <<"n","a","n">> THEN <<>> ELSE t

\* C22: the value the merge reads from an allele cell is the trimmed cell,
\* cut to the part after its last "_", made empty when it is the text
\* "nan" and left unchanged otherwise: the Locus value of a pair whose
\* second cell is missing is this value of the first cell.
C22_NormalizeKeepsOtherValues ==
  MergeDone =>
    \A i \in Positions(Prep) : \A k \in MergedPairs :
      Cell(Prep, i, AllAlleleColumns[2 * k]) = NaN =>
        merged_data.rows[i][Locus(k)] = StatedNormal(Cell(Prep, i, AllAlleleColumns[2 * k - 1]))

\* the merged table has the columns that are no allele column, unchanged,
\* then Locus k made of the (2k-1)-th and the 2k-th column of cols, a last
\* column without partner being left out, and no Allele column
MergedOver(cols) ==
  /\ merged_data.columns = OtherColumns \o [k \in 1..(Len(cols) \div 2) |-> Locus(k)]
  /\ \A i \in Positions(Prep) :
       /\ \A c \in ToSet(OtherColumns) : merged_data.rows[i][c] = Prep.rows[i][c]
       /\ \A k \in 1..(Len(cols) \div 2) :
            merged_data.rows[i][Locus(k)] =
              combine(Cell(Prep, i, cols[2 * k - 1]), Cell(Prep, i, cols[2 * k]))
       /\ DOMAIN merged_data.rows[i] = ToSet(merged_data.columns)

\* C23 as stated: the merge pairs the allele columns without the two sex
\* markers, in table order.
C23_PairsOfCanonicalColumns == MergeDone => MergedOver(CanonicalOfPrepared)

\* C23 amended: the merge pairs every column whose name starts with
\* "Allele", the two sex markers included, in table order: Locus k is made
\* of the (2k-1)-th and the 2k-th of them, a last column without partner
\* is left out, no Allele column is left and every other column is
\* carried over unchanged.
C23_PairsOfAllAlleleColumns == MergeDone => MergedOver(AllAlleleColumns)

\* a table with the slots 1, 2, 3 and the two sex markers was merged: its
\* Locus 2 is made of slot 3 and the X marker, and the Y marker is left out
C23_Witness ==
  /\ MergeDone
  /\ AllAlleleColumns = <<AlleleColumn(1), AlleleColumn(2), AlleleColumn(3),
                          GENDER_ALLELES_X, GENDER_ALLELES_Y>>
  /\ Locus(2) \in ToSet(merged_data.columns)
  /\ Locus(3) \notin ToSet(merged_data.columns)
  /\ \E i \in Positions(Prep) : merged_data.rows[i][Locus(2)] = <<"C","/","X">>

(***************************************************************************)
(* Properties of the inter-patient error count                             *)
(***************************************************************************)

\* two rows of different patients have the same non-empty signature
SharedSignature ==
  \E i, j \in Positions(Prep) :
    /\ Prep.rows[i][PatientCol] # Prep.rows[j][PatientCol]
    /\ Signature(i) # <<>>
    /\ Signature(i) = Signature(j)

\* C24: the inter-patient error count is the number of rows of the result,
\* not the number of collisions, and it is 0 exactly when the result is
\* empty, that is when no two rows of different patients have the same
\* non-empty signature.
C24_ErrorCountIsRowCount ==
  inter_result # PyNone =>
    /\ inter_result.error_count = Len(Inter.rows)
    /\ inter_result.error_count = 0 <=> IsEmpty(Inter)
    /\ inter_result.error_count = 0 <=> ~SharedSignature

\* three rows of two patients with one signature were compared: one
\* collision, and an error count of 3
C24_Witness ==
  /\ inter_result # PyNone
  /\ inter_result.error_count = 3
  /\ Cardinality({Inter.rows[k][SignatureHashCol] : k \in 1..Len(Inter.rows)}) = 1
  /\ Cardinality({Inter.rows[k][PatientCol] : k \in 1..Len(Inter.rows)}) = 2

(***************************************************************************)
(* Properties of a second preparation                                      *)
(***************************************************************************)

\* the signature derivation was run again on the prepared table
PreparedAgain == HasPrepared /\ prepared_again # PyNone

\* the columns the derivation computes for a sample
DerivedColumns ==
  {SignatureCol, SignatureHashCol, SignatureLenCol, GenreCol, PatientCol, IsNegCol}

\* C25: GeneticAnalyzer.prepare_data run on a prepared table raises
\* nothing and gives every row the signature, signature hash, signature
\* length, sex, Patient key and negative-control flag of the first run.
C25_PreparationIsIdempotent ==
  PreparedAgain =>
    /\ ~prepared_again.raised
    /\ Len(prepared_again.df.rows) = Len(Prep.rows)
    /\ \A i \in Positions(Prep) : \A c \in DerivedColumns :
         prepared_again.df.rows[i][c] = Prep.rows[i][c]

\* a table with the sample "P1bisbis" and a sample with a non-empty
\* signature was prepared twice, and the key of the sample is "P1bis" both
\* times
C25_Witness ==
  /\ PreparedAgain
  /\ \E i, j \in Positions(Prep) :
       /\ SampleName(i) = <<"P","1","b","i","s","b","i","s">>
       /\ prepared_again.df.rows[i][PatientCol] = <<"P","1","b","i","s">>
       /\ Signature(j) # <<>>
       /\ prepared_again.df.rows[j][SignatureCol] = Signature(j)

(***************************************************************************)
(* Properties of the service as a function of its argument                 *)
(***************************************************************************)

\* the preparation of table t itself: cleaning, then signature derivation
PreparationOf(t) == GeneticAnalyzer_prepare_data(DataProcessor_prepare_data(t))

\* C26: whatever calls came before on the service, prepare_data(df) gives
\* the preparation of df itself, and the matrix of a prepared table is the
\* one computed over the table's own allele columns plus sex.
C26_OperationsAreStateless ==
  /\ prepared_data # PyNone =>
       /\ prepared_data.raised = PreparationOf(prepared_data.arg).raised
       /\ prepared_data.df = PreparationOf(prepared_data.arg).df
  /\ heatmap # PyNone => heatmap = sample_heatmap(prepared_data.df, prepared_data.df)

\* the table the data processor held before any file was loaded, or the
\* table of the last file load_and_validate_file accepted
LastValidated == IF df = PyNone THEN EmptyDataFrame ELSE df

\* the last load_and_validate_file returned an error message
LoadFailed == load_result # PyNone /\ load_result.error # PyNone

\* C28: when load_and_validate_file returns an error, the data processor
\* holds the table it held before the call, which is the table of the last
\* accepted file.
C28_FailedLoadLeavesService ==
  LoadFailed => data_processor = LastValidated

(***************************************************************************)
(* Properties of the intra comparison on flagged rows                      *)
(***************************************************************************)

C27_FlaggedRowsAreKeptWhenReturned ==
  (flagged_call # PyNone /\ ~flagged_call.raised) =>
    \A i \in flagged_call.flagged :
      /\ Cell(flagged_call.df, i, StatusTypeCol)
           = Cell(flagged_call.input, i, StatusTypeCol)
      /\ Cell(flagged_call.df, i, StatusDescriptionCol)
           = Cell(flagged_call.input, i, StatusDescriptionCol)

(***************************************************************************)
(* Properties of negative controls with alleles                            *)
(***************************************************************************)

\* the negative controls whose signature is not empty
ControlsWithAlleles == {i \in NegativeControls : Signature(i) # <<>>}

\* the group of row i has several members, all of one signature and one sex
AgreeingGroup(i) ==
  Cardinality(Group(i)) > 1 /\ SameSignature(Group(i)) /\ SameSex(Group(i))

DistinctNames == \A i \in Positions(Prep) : OwnName(i)

\* the entry of the samples of rows i and j is 100
FullIdentity(i, j) == IsHundred(Entry(LabelOf(i), LabelOf(j)))

\* the inter comparison returned a row for the sample of row i
Reported(i) ==
  \E k \in 1..Len(Inter.rows) : Inter.rows[k][SampleNameCol] = SampleName(i)

\* C30: in a prepared table with pairwise distinct sample names, two samples
\* whose matrix entry is 100 have equal signatures, equal signature hashes
\* and equal inferred sex, and when they are of different patients and their
\* signature is not empty the inter comparison reports both.
C30_FullIdentityMeansSameSignature ==
  (HeatmapDone /\ DistinctNames) =>
    \A i, j \in Positions(Prep) :
      FullIdentity(i, j) =>
        /\ Signature(i) = Signature(j)
        /\ SignatureHash(i) = SignatureHash(j)
        /\ Sex(i) = Sex(j)
        /\ (/\ inter_result # PyNone
            /\ Prep.rows[i][PatientCol] # Prep.rows[j][PatientCol]
            /\ Signature(i) # <<>>)
             => Reported(i) /\ Reported(j)

\* the run of a batch with the samples "P1" and "P2" carrying the same
\* alleles and a third sample with the same signature and another sex: the
\* entry of the first two is 100 and both are reported, the entry of the
\* third with them is below 100
C30_Witness ==
  /\ HeatmapDone
  /\ DistinctNames
  /\ inter_result # PyNone
  /\ \E i, j, k \in Positions(Prep) :
       /\ i # j
       /\ FullIdentity(i, j)
       /\ Prep.rows[i][PatientCol] # Prep.rows[j][PatientCol]
       /\ Signature(i) # <<>>
       /\ Reported(i) /\ Reported(j)
       /\ Signature(k) = Signature(i)
       /\ Sex(k) # Sex(i)
       /\ ~FullIdentity(i, k)

====
